---- MODULE Spec2Model ----
(***************************************************************************)
(* A model of cargo-fast-lint's analysis core: the rule engine             *)
(* (src/rules), the file cache (src/cache.rs), the incremental analyzer    *)
(* (src/incremental.rs) and the auto-fix engine (src/autofix.rs).          *)
(*                                                                         *)
(* Spec     : the incremental analyzer over a small file system that an    *)
(*            external writer may change between the runs.                 *)
(* SpecFix  : AutoFixEngine::apply_fixes, one loop iteration per step.     *)
(* SpecRules: one file task (the rule loop of analyze_single_file) and the *)
(*            pure functions of the rules, applied to bounded inputs.      *)
(* SpecAst  : ASTCache (src/ast_cache.rs) over the same file system.       *)
(***************************************************************************)
EXTENDS Integers, Sequences, FiniteSets, TLC

\* ------------------------------------------------------------------ bounds
\* Modification times are whole seconds 0..MaxClock (cache.rs:53 as_secs).
MaxClock == 1
\* At most MaxEvents things happen around the analyzer's runs in one behaviour:
\* a file is written, removed or chmod'ed, a second passes, the analyzer is
\* dropped and constructed again.
MaxEvents == 2
\* apply_fixes is given contents of at most MaxLen bytes and at most MaxIssues
\* issues, whose fixes hold at most MaxReps replacements between them.
MaxLen == 2
MaxIssues == 2
MaxReps == 2
\* The case conversions are applied to identifiers of at most MaxIdent
\* characters, the complexity measures to bodies of at most MaxStmts statements.
MaxIdent == 3
MaxStmts == 2
MaxChars == 3
\* lint_files_parallel is given at most MaxFiles files on a machine of at most
\* MaxThreads threads (lib.rs:301-304 takes at most 8).
MaxFiles == 3
MaxThreads == 2

\* --------------------------------------------------------- source contents
\* The paths the file enumerator may hand to the analyzer, and the lists it
\* hands over: a single file, or both (the paths of a list are distinct).
Files == {"a.rs", "b.rs"}
FileLists == { {"a.rs"}, Files }

\* The contents a file may hold, by number: content 1 and 2 have the same
\* byte length and different issues, content 3 does not parse.
Contents == {1, 2, 3}

\* ident.to_string().chars() of the identifiers the contents declare.
Chars(name) ==
    CASE name = "main" -> << "m", "a", "i", "n" >>
      [] name = "run" -> << "r", "u", "n" >>
      [] OTHER -> << >>

UseItem(root, name) == [kind |-> "use", root |-> root, name |-> name, chars |-> << >>,
                        pub |-> FALSE, doc |-> FALSE, unsafety |-> FALSE, idents |-> {}]
FnItem(name, pub, doc, unsafety, idents) ==
    [kind |-> "fn", root |-> "", name |-> name, chars |-> Chars(name),
     pub |-> pub, doc |-> doc, unsafety |-> unsafety, idents |-> idents]

\* A private, undocumented fn or struct item declaring the identifier `chars`.
NamedItem(kind, chars) ==
    [kind |-> kind, root |-> "", name |-> "", chars |-> chars,
     pub |-> FALSE, doc |-> FALSE, unsafety |-> FALSE, idents |-> {}]

\* std::fs::read_to_string followed by content.len(): the byte length.
ContentLen(c) == CASE c = 1 -> 45 [] c = 2 -> 45 [] c = 5 -> 12 [] OTHER -> 7

\* syn::parse_file: the items of the file, or a parse error.
\*   1: "use std::A; use serde::B; fn main() {       }"
\*   2: "use std::A; pub fn run() { let _x = A::new(); }"   (no doc comment)
\*   3: "fn {{{ "                                           (malformed)
\*   4: "use std::A; pub fn run() { map.get(1).unwrap(); }" (a bare .unwrap() statement)
\*   5: "fn main() {}"                                      (nothing to report)
ParseOk(c) == c # 3
ParseItems(c) ==
    CASE c = 1 -> << UseItem("std", "A"), UseItem("serde", "B"),
                     FnItem("main", FALSE, FALSE, FALSE, {}) >>
      [] c = 2 -> << UseItem("std", "A"), FnItem("run", TRUE, FALSE, FALSE, {"_x", "A", "new"}) >>
      [] c = 4 -> << UseItem("std", "A"),
                     FnItem("run", TRUE, FALSE, FALSE, {"map", "get", "unwrap"}) >>
      [] c = 5 -> << FnItem("main", FALSE, FALSE, FALSE, {}) >>
      [] OTHER -> << >>

\* ------------------------------------------------------------- rule engine
NoFix == [description |-> "", replacements |-> << >>, present |-> FALSE]
SomeFix(d, reps) == [description |-> d, replacements |-> reps, present |-> TRUE]

MkIssue(rule, severity, message, lc, fix) ==
    [rule |-> rule, severity |-> severity, message |-> message,
     line |-> lc[1], column |-> lc[2], fix |-> fix]

\* RuleContext::line_col ignores the span.
line_col == << 1, 1 >>

\* Every order in which a hash map may iterate over the key set S.
Orders(S) == { s \in [1..Cardinality(S) -> S] : \A i, j \in 1..Cardinality(S) : s[i] = s[j] => i = j }

IsStd(it) == it.root \in {"std", "core", "alloc"}
IsLocal(it) == it.root \in {"crate", "super", "self"}

\* ImportOrderRule::check.  Every import is at line_col, so the lines are equal.
ImportOrderRule(items) ==
    LET uses == SelectSeq(items, LAMBDA it : it.kind = "use")
        std == SelectSeq(uses, IsStd)
        local == SelectSeq(uses, LAMBDA it : ~IsStd(it) /\ IsLocal(it))
        external == SelectSeq(uses, LAMBDA it : ~IsStd(it) /\ ~IsLocal(it))
        last_std_line == IF std = << >> THEN 0 ELSE line_col[1]
        last_external_line == IF external = << >> THEN 0 ELSE line_col[1]
        ext_issues == IF line_col[1] < last_std_line
                      THEN [i \in 1..Len(external) |->
                              MkIssue("import-order", "Info",
                                      << "External imports should come after standard library imports" >>,
                                      line_col, NoFix)]
                      ELSE << >>
        loc_issues == IF line_col[1] < last_external_line
                      THEN [i \in 1..Len(local) |->
                              MkIssue("import-order", "Info",
                                      << "Local imports should come after external crate imports" >>,
                                      line_col, NoFix)]
                      ELSE << >>
    IN { ext_issues \o loc_issues }

\* UnusedImportRule::check.  The imports are kept in a std HashMap whose
\* iteration order is not fixed (RandomState): the issues come in any order.
UnusedImportIssue(name) ==
    MkIssue("unused-import", "Warning", << "Unused import: ", name >>, line_col,
            SomeFix("Remove unused import", << >>))

UnusedImportRule(items) ==
    LET imports == { items[i].name : i \in { j \in 1..Len(items) : items[j].kind = "use" } }
        others == { j \in 1..Len(items) : items[j].kind # "use" }
        used_idents == UNION { {items[j].name} \cup items[j].idents : j \in others }
        unused == imports \ used_idents
    IN { [i \in 1..Cardinality(unused) |-> UnusedImportIssue(o[i])] : o \in Orders(unused) }

\* UnsafeBlockRule::check: has_safety_doc is always false.
UnsafeBlockRule(items) ==
    LET bad == SelectSeq(items, LAMBDA it : it.kind = "fn" /\ it.unsafety)
    IN { [i \in 1..Len(bad) |->
            MkIssue("unsafe-block", "Error",
                    << "Unsafe function without safety documentation" >>, line_col, NoFix)] }

\* MissingDocsRule::check (the function case).
MissingDocsRule(items) ==
    LET bad == SelectSeq(items, LAMBDA it : it.kind = "fn" /\ it.pub /\ ~it.doc)
    IN { [i \in 1..Len(bad) |->
            MkIssue("missing-docs", "Warning",
                    << "Missing documentation for public function '", bad[i].name, "'" >>,
                    line_col, NoFix)] }

\* ---- characters and the case helpers of rules/style.rs
\* The characters of the identifiers looked at.  "Idot" is U+0130, an
\* uppercase letter whose lowercase mapping is the two characters "i\u{307}".
LowerChars == { "a", "d", "g", "h", "i", "m", "n", "o", "r", "t", "u" }
UpperChars == { "A", "D", "I", "T", "Idot" }
DigitChars == { "1" }

\* char::is_lowercase, is_uppercase, is_numeric, is_alphanumeric.
is_lowercase(ch) == ch \in LowerChars
is_uppercase(ch) == ch \in UpperChars
is_numeric(ch) == ch \in DigitChars
is_alphanumeric(ch) == ch \in LowerChars \cup UpperChars \cup DigitChars

\* ch.to_lowercase().next() and ch.to_uppercase().next(): the first character
\* of the case mapping.
ToLowerFirst(ch) ==
    CASE ch = "A" -> "a" [] ch = "D" -> "d" [] ch = "T" -> "t"
      [] ch \in { "I", "Idot" } -> "i"
      [] OTHER -> ch
ToUpperFirst(ch) ==
    CASE ch = "a" -> "A" [] ch = "d" -> "D" [] ch = "t" -> "T" [] ch = "i" -> "I"
      [] ch = "g" -> "G" [] ch = "h" -> "H" [] ch = "m" -> "M" [] ch = "n" -> "N"
      [] ch = "o" -> "O" [] ch = "r" -> "R" [] ch = "u" -> "U"
      [] OTHER -> ch

\* style.rs is_snake_case, is_pascal_case.
is_snake_case(s) ==
    \A i \in 1..Len(s) : is_lowercase(s[i]) \/ is_numeric(s[i]) \/ s[i] = "_"
is_pascal_case(s) ==
    /\ s # << >> /\ is_uppercase(s[1])
    /\ \A i \in 1..Len(s) : is_alphanumeric(s[i])

\* style.rs to_snake_case: an underscore before every uppercase character but
\* the first character, every character lowercased.
RECURSIVE SnakeFrom(_, _)
SnakeFrom(s, i) ==
    IF i > Len(s) THEN << >>
    ELSE (IF is_uppercase(s[i]) /\ i > 1 THEN << "_" >> ELSE << >>)
         \o << ToLowerFirst(s[i]) >> \o SnakeFrom(s, i + 1)
to_snake_case(s) == SnakeFrom(s, 1)

\* name.starts_with("test_")
StartsWithTest(s) == Len(s) >= 5 /\ SubSeq(s, 1, 5) = << "t", "e", "s", "t", "_" >>

\* NamingConventionRule::check: the issue of one item, if any.
NamingIssue(it) ==
    IF it.kind = "fn" /\ ~is_snake_case(it.chars) /\ ~StartsWithTest(it.chars)
    THEN << MkIssue("naming-convention", "Warning",
                    << "Function '", it.chars, "' should be snake_case" >>, line_col,
                    SomeFix("Convert to snake_case",
                            << [start |-> 0, end |-> 0, text |-> to_snake_case(it.chars)] >>)) >>
    ELSE IF it.kind = "struct" /\ ~is_pascal_case(it.chars)
    THEN << MkIssue("naming-convention", "Warning",
                    << "Struct '", it.chars, "' should be PascalCase" >>, line_col, NoFix) >>
    ELSE << >>

RECURSIVE NamingIssuesFrom(_, _)
NamingIssuesFrom(items, i) ==
    IF i > Len(items) THEN << >>
    ELSE NamingIssue(items[i]) \o NamingIssuesFrom(items, i + 1)

NamingConventionRule(items) == { NamingIssuesFrom(items, 1) }

\* ---- the rule list
\* RuleConfig: the flags of the rule families.
Flags == { "check_syntax", "check_style", "check_naming", "check_imports", "check_unsafe",
           "check_complexity", "check_missing_docs", "check_line_length",
           "check_unwrap_usage", "check_todo_macros", "check_must_use", "check_anti_patterns" }
Configs == [Flags -> BOOLEAN]
DefaultConfig == [f \in Flags |-> TRUE]

\* get_enabled_rules(config): the rules' names in registration order.
EnabledRules(cfg) ==
    << "unmatched-delimiters", "invalid-syntax" >>
    \o (IF cfg["check_naming"] THEN << "naming-convention" >> ELSE << >>)
    \o (IF cfg["check_line_length"] THEN << "line-too-long" >> ELSE << >>)
    \o (IF cfg["check_imports"] THEN << "import-order", "unused-import" >> ELSE << >>)
    \o (IF cfg["check_unsafe"] THEN << "unsafe-block" >> ELSE << >>)
    \o (IF cfg["check_complexity"]
        THEN << "cyclomatic-complexity", "cognitive-complexity" >> ELSE << >>)
    \o (IF cfg["check_missing_docs"] THEN << "missing-docs" >> ELSE << >>)

\* The rule list of an analyzer made with Config::default().
get_enabled_rules == EnabledRules(DefaultConfig)

\* rule.check on the items of a file: the issue lists it may report.  The
\* contents have balanced braces, lines under 100 bytes and no branches:
\* the delimiter, syntax, line-length and complexity rules report nothing.
RuleCheck(rule, items) ==
    CASE rule = "import-order" -> ImportOrderRule(items)
      [] rule = "unused-import" -> UnusedImportRule(items)
      [] rule = "unsafe-block" -> UnsafeBlockRule(items)
      [] rule = "missing-docs" -> MissingDocsRule(items)
      [] rule = "naming-convention" -> NamingConventionRule(items)
      [] OTHER -> { << >> }

\* for rule in &self.rules { rule.check(&mut ctx) }: the issue lists the loop
\* may leave in ctx.issues, starting from the list `acc`.
RECURSIVE ApplyRules(_, _, _)
ApplyRules(rules, items, acc) ==
    IF rules = << >> THEN { acc }
    ELSE UNION { ApplyRules(Tail(rules), items, acc \o out) : out \in RuleCheck(Head(rules), items) }

\* The issue lists one analysis of content c may return.
AnalyzeContent(c) == ApplyRules(get_enabled_rules, ParseItems(c), << >>)

\* ------------------------------------------------------------- file system
VARIABLES
    fs,            \* path -> [status, content, mtime]
    clock,         \* the current time in seconds
    cache,         \* AnalysisCache.cache: path -> [hash, issues] (a partial map)
    dirty,         \* AnalysisCache.dirty
    disk,          \* the cache file: [state: "missing" | "corrupt" | "valid", map]
    last,          \* the results of the last run of this analyzer
    prev,          \* the results of the run before it
    touched,       \* paths changed on disk since the last run
    events,        \* how many events have happened
    \* ---- AutoFixEngine (autofix.rs)
    fx_pc,         \* "idle" | "loop" | "fix" | "done": where apply_fixes stands
    original,      \* the content argument of apply_fixes
    issues,        \* the issues argument: a list of [line, has_fix]
    fixed_content,     \* apply_fixes' fixed_content
    offset_adjustment, \* apply_fixes' offset_adjustment
    fixes_applied,     \* AutoFixEngine.fixes_applied
    idx,           \* the position of the loop in fixes_with_positions
    reps_left,     \* the replacements of the current Fix not yet reached
    low,           \* the lowest start of the replacements reached in this call
    reps_budget,   \* how many more replacements the fixes of this call may hold
    applied_before,\* fixes_applied when apply_fixes was called
    attempted,     \* the fixes handed to apply_single_fix in this call
    fix_start,     \* the content and offset when the current fix was handed over
    \* ---- one call of a rule-engine function, or one file task
    r_op,          \* the function called, "idle" before the call
    r_in,          \* its argument
    r_out,         \* its result, or the state of the file task
    \* ---- ASTCache (ast_cache.rs)
    ast_cache,     \* ASTCache.cache: path -> [file_hash, ast_tokens, creation_time]
    ast_parsed     \* the paths get_or_parse returned Ok for and nothing removed since

avars == << fs, clock, cache, dirty, disk, last, prev, touched, events >>
fvars == << fx_pc, original, issues, fixed_content, offset_adjustment, fixes_applied,
            idx, reps_left, low, reps_budget, applied_before, attempted, fix_start >>
xvars == << r_op, r_in, r_out, ast_cache, ast_parsed >>
vars == << avars, fvars, xvars >>

\* AutoFixEngine::new, no call of apply_fixes made.
FixIdle ==
    /\ fx_pc = "idle"
    /\ original = << >>
    /\ issues = << >>
    /\ fixed_content = << >>
    /\ offset_adjustment = 0
    /\ fixes_applied = 0
    /\ idx = 0
    /\ reps_left = 0
    /\ low = 0
    /\ reps_budget = 0
    /\ applied_before = 0
    /\ attempted = 0
    /\ fix_start = << >>

\* No function of the rule engine called; ASTCache::new: the map is empty
\* when ast-cache.bin is missing or cannot be read, and a file that an
\* earlier ASTCache saved holds the empty map too.
RulesIdle ==
    /\ r_op = "idle"
    /\ r_in = << >>
    /\ r_out = << >>
    /\ ast_cache = [p \in {} |-> << >>]
    /\ ast_parsed = {}

Missing == [status |-> "missing", content |-> 1, mtime |-> 0]

\* AnalysisCache::get_metadata: Err when the file cannot be stat'ed, else the
\* fingerprint of (path, size, modified); the hash is taken to be collision-free.
MetadataOk(fsys, p) == fsys[p].status # "missing"
get_metadata(fsys, p) == << p, ContentLen(fsys[p].content), fsys[p].mtime >>

\* is_file_changed without the look-up of the cached hash.
is_file_changed_NoLookup(c, fsys, p) ==
    IF ~MetadataOk(fsys, p) THEN "err" ELSE "changed"

\* is_file_changed with the metadata error swallowed (unwrap_or(true)).
is_file_changed_ErrIsChanged(c, fsys, p) ==
    IF MetadataOk(fsys, p) /\ p \in DOMAIN c /\ c[p].hash = get_metadata(fsys, p)
    THEN "unchanged" ELSE "changed"

\* AnalysisCache::is_file_changed: "err", "changed" or "unchanged".
is_file_changed(c, fsys, p) ==
    IF ~MetadataOk(fsys, p) THEN "err"
    ELSE IF p \in DOMAIN c
         THEN (IF c[p].hash # get_metadata(fsys, p) THEN "changed" ELSE "unchanged")
         ELSE "changed"

\* cleanup_stale_entries that keeps the entries of the files that are gone.
cleanup_stale_entries_HashOnly(c, fsys) ==
    [p \in { q \in DOMAIN c : ~MetadataOk(fsys, q) \/ get_metadata(fsys, q) = c[q].hash } |-> c[p]]

\* AnalysisCache::cleanup_stale_entries: the paths it removes, and what is left.
StalePaths(c, fsys) ==
    { p \in DOMAIN c : ~MetadataOk(fsys, p) \/ get_metadata(fsys, p) # c[p].hash }

cleanup_stale_entries(c, fsys) == [p \in (DOMAIN c) \ StalePaths(c, fsys) |-> c[p]]

\* AnalysisCache::store_analysis for every path of new_issues (incremental.rs
\* 94-98): an entry is written when the metadata can be read.
StoredPaths(fsys, found) == { p \in DOMAIN found : MetadataOk(fsys, p) }

\* store_analysis keeping the hash and dropping the issues.
StoreAll_NoIssues(c, fsys, found) ==
    [p \in (DOMAIN c) \cup StoredPaths(fsys, found) |->
        IF p \in StoredPaths(fsys, found)
        THEN [hash |-> get_metadata(fsys, p), issues |-> << >>]
        ELSE c[p]]

StoreAll(c, fsys, found) ==
    [p \in (DOMAIN c) \cup StoredPaths(fsys, found) |->
        IF p \in StoredPaths(fsys, found)
        THEN [hash |-> get_metadata(fsys, p), issues |-> found[p]]
        ELSE c[p]]

EmptyMap == [p \in {} |-> << >>]

\* IncrementalResults and IncrementalStats of a run, with what was true when
\* the run started: the file list, whether it was the analyzer's first run, the
\* cache keys, the listed files on disk, the paths changed since the run before.
NoRun == [files |-> {}, new_issues |-> EmptyMap, cached_issues |-> EmptyMap,
          files_analyzed |-> 0, files_from_cache |-> 0, files_skipped |-> 0,
          first |-> FALSE, had_entry |-> {}, at_start |-> EmptyMap,
          before |-> {}, done |-> FALSE]

\* save with the test of the dirty flag inverted.
save_IfClean(d, c, isDirty) == IF ~isDirty THEN [state |-> "valid", map |-> c] ELSE d

\* AnalysisCache::save: nothing when not dirty, else the whole map is written.
save(d, c, isDirty) == IF isDirty THEN [state |-> "valid", map |-> c] ELSE d

\* AnalysisCache::load: a missing file leaves the map empty, a corrupt one
\* fails to decode and leaves it empty too, a valid one replaces the map.
load(d) == IF d.state = "valid" THEN d.map ELSE EmptyMap

\* new that marks the cache dirty when the load failed.
new_DirtyOnError(d) == [cache |-> load(d), dirty |-> d.state = "corrupt"]

\* AnalysisCache::new: an empty, clean cache, then load; an Err of load is
\* printed and the cache is returned as it is.
new(d) == [cache |-> load(d), dirty |-> FALSE]

Init ==
    /\ fs \in [Files -> {Missing, [status |-> "ok", content |-> 1, mtime |-> 0]}]
    /\ clock = 0
    /\ disk \in { [state |-> "missing", map |-> EmptyMap], [state |-> "corrupt", map |-> EmptyMap] }
    /\ cache = new(disk).cache
    /\ dirty = new(disk).dirty
    /\ last = NoRun
    /\ prev = NoRun
    /\ touched = {}
    /\ events = 0
    /\ FixIdle
    /\ RulesIdle

Event ==
    /\ events < MaxEvents
    /\ events' = events + 1

\* ---- the outside world: another process writes, chmods or removes files
Touch(p) ==
    /\ Event
    /\ touched' = touched \cup {p}
    /\ UNCHANGED << clock, cache, dirty, disk, last, prev >>
    /\ UNCHANGED << fvars, xvars >>

\* fs::write(path, content): the file holds c, modified now.
WriteFile ==
    \E p \in Files, c \in Contents :
        /\ fs[p] # [status |-> "ok", content |-> c, mtime |-> clock]
        /\ fs' = [fs EXCEPT ![p] = [status |-> "ok", content |-> c, mtime |-> clock]]
        /\ Touch(p)

\* The file is removed.
RemoveFile ==
    \E p \in Files :
        /\ fs[p].status # "missing"
        /\ fs' = [fs EXCEPT ![p] = Missing]
        /\ Touch(p)

\* The file's permissions change: it can be stat'ed but not read (or read again).
Chmod ==
    \E p \in Files :
        /\ fs[p].status # "missing"
        /\ fs' = [fs EXCEPT ![p].status = IF @ = "ok" THEN "unreadable" ELSE "ok"]
        /\ Touch(p)

\* A second passes.
Tick ==
    /\ clock < MaxClock
    /\ Event
    /\ clock' = clock + 1
    /\ UNCHANGED << fs, cache, dirty, disk, last, prev, touched >>
    /\ UNCHANGED << fvars, xvars >>

\* ---- IncrementalAnalyzer
\* analyze_single_file: Err when the content cannot be read or parsed, else
\* the issues the rules report.
analyze_single_file(fsys, p) ==
    IF fsys[p].status = "ok" /\ ParseOk(fsys[p].content)
    THEN { [ok |-> TRUE, issues |-> i] : i \in AnalyzeContent(fsys[p].content) }
    ELSE { [ok |-> FALSE, issues |-> << >>] }

\* incremental.rs 53-73: the files the loop pushes to files_to_analyze, those
\* it serves from the cache and those it skips, given the swept cache.
FilesToAnalyze(c, fsys, files) == { p \in files : is_file_changed(c, fsys, p) = "changed" }
CacheHits(c, fsys, files) == { p \in files : is_file_changed(c, fsys, p) = "unchanged" }
Skipped(c, fsys, files) == { p \in files : is_file_changed(c, fsys, p) = "err" }

\* incremental.rs 76-91: every way the parallel map may fill new_issues.
NewIssues(fsys, todo) ==
    { [p \in { q \in todo : r[q].ok } |-> r[p].issues] :
        r \in { g \in [todo -> UNION { analyze_single_file(fsys, q) : q \in todo }] :
                   \A q \in todo : g[q] \in analyze_single_file(fsys, q) } }

\* analyze_files: the sweep, the classification, the analysis of the changed
\* files, the cache update and the results.
AnalyzeFilesRun(files) ==
        LET swept == cleanup_stale_entries(cache, fs)
            hits == CacheHits(swept, fs, files)
        IN \E new_issues \in NewIssues(fs, FilesToAnalyze(swept, fs, files)) :
            /\ cache' = StoreAll(swept, fs, new_issues)
            /\ dirty' = (dirty \/ StalePaths(cache, fs) # {} \/ StoredPaths(fs, new_issues) # {})
            /\ prev' = last
            /\ last' = [files |-> files,
                        new_issues |-> new_issues,
                        cached_issues |-> [p \in hits |-> swept[p].issues],
                        files_analyzed |-> Cardinality(DOMAIN new_issues),
                        files_from_cache |-> Cardinality(hits),
                        files_skipped |-> Cardinality(Skipped(swept, fs, files)),
                        first |-> ~last.done,
                        had_entry |-> DOMAIN cache,
                        at_start |-> [p \in files |-> fs[p]],
                        before |-> touched,
                        done |-> TRUE]
            /\ touched' = {}
            /\ UNCHANGED << fs, clock, disk, events >>

analyze_files == \E files \in FileLists : AnalyzeFilesRun(files) /\ UNCHANGED << fvars, xvars >>

\* ---- the analyzer's lifetime
\* The analyzer is dropped (Drop for AnalysisCache saves) and a new one is
\* constructed over the same cache directory (AnalysisCache::new loads).
Restart ==
    /\ last.done
    /\ Event
    /\ disk' = save(disk, cache, dirty)
    /\ cache' = new(disk').cache
    /\ dirty' = new(disk').dirty
    /\ last' = NoRun
    /\ prev' = NoRun
    /\ UNCHANGED << fs, clock, touched >>
    /\ UNCHANGED << fvars, xvars >>

Next ==
    \/ WriteFile
    \/ RemoveFile
    \/ Chmod
    \/ Tick
    \/ analyze_files
    \/ Restart

Spec == Init /\ [][Next]_vars

\* ------------------------------------------- analyze_files, step by step
\* The run of analyze_files as the steps other processes can fall between:
\* the sweep and the classification (lines 46-73), the analysis of each file
\* by the parallel map (76-89), each store_analysis of the update loop (94-98)
\* and the return.  r_in is the file list and r_out the state of the run.

\* store_analysis that keeps the hash and drops the issues.
store_analysis_NoIssues(c, d, fsys, p, iss) ==
    IF MetadataOk(fsys, p)
    THEN [cache |-> (p :> [hash |-> get_metadata(fsys, p), issues |-> << >>]) @@ c, dirty |-> TRUE]
    ELSE [cache |-> c, dirty |-> d]

\* AnalysisCache::store_analysis: Err when the metadata cannot be read, else
\* the entry is inserted over any prior one and the cache is marked dirty.
store_analysis(c, d, fsys, p, iss) ==
    IF MetadataOk(fsys, p)
    THEN [cache |-> (p :> [hash |-> get_metadata(fsys, p), issues |-> iss]) @@ c, dirty |-> TRUE]
    ELSE [cache |-> c, dirty |-> d]

\* remove_file that leaves the dirty flag alone.
remove_file_NoDirty(c, d, p) == [cache |-> [q \in (DOMAIN c) \ {p} |-> c[q]], dirty |-> d]

\* AnalysisCache::remove_file: the cache is marked dirty when an entry was removed.
remove_file(c, d, p) ==
    [cache |-> [q \in (DOMAIN c) \ {p} |-> c[q]], dirty |-> d \/ p \in DOMAIN c]

RunIdle == r_op \in { "idle", "returned" }

\* analyze_files, lines 46-73: the sweep, then every file is pushed to
\* files_to_analyze, served from the cache or skipped.
RunStart ==
    \E files \in FileLists :
        LET swept == cleanup_stale_entries(cache, fs)
            hits == CacheHits(swept, fs, files)
            todo == FilesToAnalyze(swept, fs, files)
        IN /\ RunIdle
           /\ cache' = swept
           /\ dirty' = (dirty \/ DOMAIN swept # DOMAIN cache)
           /\ r_op' = "analyze"
           /\ r_in' = files
           /\ r_out' = [pending |-> todo,
                        new_issues |-> EmptyMap,
                        read |-> EmptyMap,
                        to_store |-> {},
                        stored |-> {},
                        cached_issues |-> [p \in hits |-> swept[p].issues],
                        files_skipped |-> Cardinality(Skipped(swept, fs, files)),
                        swept_out |-> (DOMAIN cache) \ (DOMAIN swept)]
           /\ UNCHANGED << fs, clock, disk, last, prev, touched, events >>
           /\ UNCHANGED << fvars, ast_cache, ast_parsed >>

\* One task of the parallel map: analyze_single_file reads and parses the
\* file as it is now; an Err drops the file.
AnalyzeFile ==
    \E p \in Files, res \in UNION { analyze_single_file(fs, q) : q \in Files } :
        /\ r_op = "analyze"
        /\ p \in r_out.pending
        /\ res \in analyze_single_file(fs, p)
        /\ r_out' = [r_out EXCEPT
                       !.pending = @ \ {p},
                       !.new_issues = IF res.ok THEN (p :> res.issues) @@ @ ELSE @,
                       !.read = IF res.ok THEN (p :> fs[p].content) @@ @ ELSE @,
                       !.to_store = IF res.ok THEN @ \cup {p} ELSE @]
        /\ UNCHANGED << r_op, r_in, ast_cache, ast_parsed >>
        /\ UNCHANGED << avars, fvars >>

\* One iteration of the update loop, lines 94-98, once the parallel map is
\* done: store_analysis reads the metadata of the file as it is now.
StoreOne ==
    \E p \in Files :
        LET st == store_analysis(cache, dirty, fs, p, r_out.new_issues[p])
        IN /\ r_op = "analyze"
           /\ r_out.pending = {}
           /\ p \in r_out.to_store
           /\ cache' = st.cache
           /\ dirty' = st.dirty
           /\ r_out' = [r_out EXCEPT !.to_store = @ \ {p},
                                     !.stored = IF MetadataOk(fs, p) THEN @ \cup {p} ELSE @]
           /\ UNCHANGED << fs, clock, disk, last, prev, touched, events >>
           /\ UNCHANGED << r_op, r_in, ast_cache, ast_parsed >>
           /\ UNCHANGED fvars

\* analyze_files returns the IncrementalResults.
RunReturns ==
    /\ r_op = "analyze"
    /\ r_out.pending = {}
    /\ r_out.to_store = {}
    /\ r_op' = "returned"
    /\ UNCHANGED << r_in, r_out, ast_cache, ast_parsed >>
    /\ UNCHANGED << avars, fvars >>

\* IncrementalAnalyzer::invalidate_file between two runs.
invalidate_file ==
    \E p \in Files :
        /\ RunIdle
        /\ cache' = remove_file(cache, dirty, p).cache
        /\ dirty' = remove_file(cache, dirty, p).dirty
        /\ UNCHANGED << fs, clock, disk, last, prev, touched, events >>
        /\ UNCHANGED << fvars, xvars >>

\* IncrementalAnalyzer::save_cache between two runs: AnalysisCache::save
\* returns at once when not dirty; else the write succeeds and dirty is
\* cleared, or it fails with Err and dirty stays set: before the file is
\* opened ("failed", the file is as it was) or after fs::write truncated it
\* ("torn", the file no longer decodes).
save_cache ==
    \E outcome \in { "written", "failed", "torn" } :
        /\ RunIdle
        /\ disk' = CASE ~dirty -> disk
                    [] outcome = "written" -> save(disk, cache, dirty)
                    [] outcome = "torn" -> [state |-> "corrupt", map |-> disk.map]
                    [] OTHER -> disk
        /\ dirty' = (dirty /\ outcome # "written")
        /\ UNCHANGED << fs, clock, cache, last, prev, touched, events >>
        /\ UNCHANGED << fvars, xvars >>

\* AnalysisCache::load on the live cache: Ok with nothing read when the file
\* is missing, Err with nothing changed when it cannot be decoded, else the
\* map is replaced and dirty cleared.
load_cache ==
    /\ RunIdle
    /\ cache' = IF disk.state = "valid" THEN load(disk) ELSE cache
    /\ dirty' = (dirty /\ disk.state # "valid")
    /\ UNCHANGED << fs, clock, disk, last, prev, touched, events >>
    /\ UNCHANGED << fvars, xvars >>

InitRun ==
    /\ fs \in [Files -> {Missing, [status |-> "ok", content |-> 1, mtime |-> 0]}]
    /\ clock = 0
    /\ disk \in { [state |-> "missing", map |-> EmptyMap], [state |-> "corrupt", map |-> EmptyMap] }
    /\ cache = new(disk).cache
    /\ dirty = new(disk).dirty
    /\ last = NoRun
    /\ prev = NoRun
    /\ touched = {}
    /\ events = 0
    /\ FixIdle
    /\ RulesIdle

NextRun ==
    \/ WriteFile
    \/ RemoveFile
    \/ RunStart
    \/ AnalyzeFile
    \/ StoreOne
    \/ RunReturns
    \/ invalidate_file
    \/ save_cache
    \/ load_cache

SpecRun == InitRun /\ [][NextRun]_vars

\* ------------------------------------------------------------- Analyzer
\* MaxApplied: analyze_path_with_autofix is called while the engine's counter
\* is below it.
MaxApplied == 3

\* PerformanceConfig.incremental_analysis and AutoFixConfig.enabled of the
\* Config the Analyzer is built with.
AnalyzerConfigs == [incremental_analysis : BOOLEAN, autofix_enabled : BOOLEAN]

\* IncrementalResults::all_issues: new_issues extended by cached_issues.
all_issues(res) ==
    [p \in (DOMAIN res.new_issues) \cup (DOMAIN res.cached_issues) |->
        IF p \in DOMAIN res.cached_issues THEN res.cached_issues[p] ELSE res.new_issues[p]]

\* Analyzer::analyze_files_parallel: the maps it may return; a file is
\* inserted when it was read and parsed and its issue list is not empty.
analyze_files_parallel(fsys, files) ==
    { [p \in { q \in DOMAIN found : found[q] # << >> } |-> found[p]] :
        found \in NewIssues(fsys, files) }

\* apply_fixes on the issues of one file: the fixes it counts.  The fixes of
\* the rules hold no replacement or one insertion at 0..0, whose translated
\* range is in bounds whatever was inserted before.
AppliedFixes(iss) == Cardinality({ i \in 1..Len(iss) : iss[i].fix.present })

RECURSIVE AppliedIn(_, _, _)
AppliedIn(fsys, file_issues, ps) ==
    IF ps = {} THEN 0
    ELSE LET p == CHOOSE q \in ps : TRUE
         IN (IF fsys[p].status = "ok" THEN AppliedFixes(file_issues[p]) ELSE 0)
            + AppliedIn(fsys, file_issues, ps \ {p})

\* analyze_path_with_options, lines 122-171: the auto-fix loop and the stats
\* of the results for file_issues.  applied_in_run is the number of fixes
\* the loop applied.
PathResults(file_issues, total_files, apply_autofix) ==
    LET on == apply_autofix /\ r_in.autofix_enabled
        applied == IF on THEN AppliedIn(fs, file_issues, DOMAIN file_issues) ELSE 0
    IN /\ fixes_applied' = fixes_applied + applied
       /\ r_op' = "analyze_path"
       /\ r_in' = r_in
       /\ r_out' = [file_issues |-> file_issues,
                    total_files |-> total_files,
                    files_with_issues |-> Cardinality(DOMAIN file_issues),
                    autofix |-> on,
                    fixes_applied |-> IF on THEN fixes_applied' ELSE 0,
                    applied_in_run |-> applied]
       /\ UNCHANGED << fx_pc, original, issues, fixed_content, offset_adjustment, idx,
                       reps_left, low, reps_budget, applied_before, attempted, fix_start >>
       /\ UNCHANGED << ast_cache, ast_parsed >>

\* analyze_path / analyze_path_with_autofix: the walker lists the files that
\* exist, the incremental analyzer or analyze_files_parallel gives
\* file_issues, then the auto-fix loop and the stats.
analyze_path ==
    \E listed \in FileLists, apply_autofix \in BOOLEAN :
        LET files == { p \in listed : fs[p].status # "missing" }
        IN /\ fixes_applied < MaxApplied
           /\ IF r_in.incremental_analysis
              THEN /\ AnalyzeFilesRun(files)
                   /\ PathResults(all_issues(last'), Cardinality(files), apply_autofix)
              ELSE \E file_issues \in analyze_files_parallel(fs, files) :
                      /\ PathResults(file_issues, Cardinality(files), apply_autofix)
                      /\ UNCHANGED avars

\* Analyzer::new(config) over an empty cache directory; the files hold
\* content 1 or content 5, or do not exist.
InitPath ==
    /\ fs \in [Files -> {Missing, [status |-> "ok", content |-> 1, mtime |-> 0],
                         [status |-> "ok", content |-> 5, mtime |-> 0]}]
    /\ clock = 0
    /\ disk = [state |-> "missing", map |-> EmptyMap]
    /\ cache = new(disk).cache
    /\ dirty = new(disk).dirty
    /\ last = NoRun
    /\ prev = NoRun
    /\ touched = {}
    /\ events = 0
    /\ FixIdle
    /\ r_op = "idle"
    /\ r_in \in AnalyzerConfigs
    /\ r_out = << >>
    /\ ast_cache = [p \in {} |-> << >>]
    /\ ast_parsed = {}

NextPath ==
    \/ WriteFile
    \/ RemoveFile
    \/ analyze_path

SpecPath == InitPath /\ [][NextPath]_vars

\* ------------------------------------------------------- auto-fix engine
\* `as usize` wraps a negative i64 to a huge value.  usize is 64 bits wide; the
\* model keeps the wrap on a 16-bit scale, far above every length it reaches.
UsizeModulus == 2^16
AsUsize_Abs(x) == IF x < 0 THEN -x ELSE x
AsUsize(x) == x % UsizeModulus

Min(a, b) == IF a <= b THEN a ELSE b
Max(a, b) == IF a >= b THEN a ELSE b

\* The bytes of an original content are 1, 2, .., n, so that every byte tells
\* where it came from; a replacement text is made of bytes 0.
OriginalContents == { [i \in 1..n |-> i] : n \in 0..MaxLen }
Texts == { << >>, << 0, 0 >> }
Replacements == [start : 0..MaxLen, end : 0..MaxLen, text : Texts]

\* An issue, as far as apply_fixes looks at it before the loop: location.line
\* and whether fix is Some.
Lines == {1, 2}
IssueLists == UNION { [1..n -> [line : Lines, has_fix : BOOLEAN]] : n \in 0..MaxIssues }

\* autofix.rs 21-24: filter_map keeps the issues that carry a fix.
FixIndexes_NoFilter(iss) == 1..Len(iss)
FixIndexes(iss) == { i \in 1..Len(iss) : iss[i].has_fix }

\* autofix.rs 27: sort_by_key(Reverse(line)), a stable sort.
SortsBefore(iss, i, j) ==
    iss[i].line > iss[j].line \/ (iss[i].line = iss[j].line /\ i < j)

fixes_with_positions(iss) ==
    [k \in 1..Cardinality(FixIndexes(iss)) |->
        CHOOSE i \in FixIndexes(iss) :
            Cardinality({ j \in FixIndexes(iss) : SortsBefore(iss, j, i) }) = k - 1]

\* autofix.rs 51: the range check, on the translated usize values.
RangeInvalid_NoInverted(start, end, len) == start > len \/ end > len
RangeInvalid(start, end, len) == start > len \/ end > len \/ start > end

\* String::replace_range(start..end, text).  The check above keeps it to
\* start <= end <= len; outside of that the pieces are cut at the content's ends.
replace_range(content, start, end, text) ==
    [i \in 1..Min(start, Len(content)) |-> content[i]]
    \o text
    \o [i \in 1..Max(0, Len(content) - end) |-> content[i + end]]

\* apply_fixes, lines 16-27: the locals are set up and the fixes are sorted.
\* An engine is followed through further calls while its counter is below
\* MaxIssues at the call, so the counter stays below 2 * MaxIssues.
apply_fixes ==
    \E c \in OriginalContents, iss \in IssueLists :
        /\ fx_pc = "idle"
        /\ fixes_applied < MaxIssues
        /\ fx_pc' = "loop"
        /\ original' = c
        /\ issues' = iss
        /\ fixed_content' = c
        /\ offset_adjustment' = 0
        /\ idx' = 1
        /\ reps_left' = 0
        /\ low' = Len(c)
        /\ reps_budget' = MaxReps
        /\ applied_before' = fixes_applied
        /\ attempted' = 0
        /\ UNCHANGED << fixes_applied, fix_start >>
        /\ UNCHANGED << avars, xvars >>

\* apply_single_fix returns: Ok(true) is counted (line 31), Ok(false) is not
\* (line 32); the loop of apply_fixes goes on to the next fix.
FixReturns(ok) ==
    /\ fixes_applied' = IF ok THEN fixes_applied + 1 ELSE fixes_applied
    /\ idx' = idx + 1
    /\ reps_left' = 0
    /\ fx_pc' = "loop"
    /\ fix_start' = << >>

\* autofix.rs 29-30: the loop hands the next fix to apply_single_fix; the fix
\* holds k replacements (none: Ok(true) at once).
StartFix ==
    \E k \in 0..reps_budget :
        /\ fx_pc = "loop"
        /\ idx <= Cardinality(FixIndexes(issues))
        /\ attempted' = attempted + 1
        /\ reps_budget' = reps_budget - k
        /\ IF k = 0
           THEN FixReturns(TRUE)
           ELSE /\ fx_pc' = "fix"
                /\ reps_left' = k
                /\ fix_start' = [content |-> fixed_content, offset |-> offset_adjustment]
                /\ UNCHANGED << fixes_applied, idx >>
        /\ UNCHANGED << original, issues, fixed_content, offset_adjustment, low, applied_before >>
        /\ UNCHANGED << avars, xvars >>

\* The line of the i-th fix the loop handles.
LineOf(i) == issues[fixes_with_positions(issues)[i]].line

\* When every fix reached so far is on an earlier line than the fix before it
\* and holds one replacement, of a non-empty range of the original content that
\* lies before the ranges reached earlier, low is the lowest start reached;
\* else it is -1.
NextLow(r) ==
    IF /\ reps_left = 1 /\ r.start < r.end /\ r.end <= Len(original) /\ r.end <= low
       /\ idx = 1 \/ LineOf(idx) < LineOf(idx - 1)
    THEN r.start ELSE -1

\* apply_single_fix, lines 47-62: one iteration of the loop, on replacement r.
apply_single_fix(r) ==
    LET start == AsUsize(r.start + offset_adjustment)
        end == AsUsize(r.end + offset_adjustment)
    IN /\ fx_pc = "fix"
       /\ IF RangeInvalid(start, end, Len(fixed_content))
          THEN /\ FixReturns(FALSE)
               /\ UNCHANGED << fixed_content, offset_adjustment >>
          ELSE /\ fixed_content' = replace_range(fixed_content, start, end, r.text)
               /\ offset_adjustment' = offset_adjustment + Len(r.text) - (end - start)
               /\ IF reps_left = 1
                  THEN FixReturns(TRUE)
                  ELSE /\ reps_left' = reps_left - 1
                       /\ UNCHANGED << fx_pc, idx, fixes_applied, fix_start >>
       /\ low' = NextLow(r)
       /\ UNCHANGED << original, issues, reps_budget, applied_before, attempted >>
       /\ UNCHANGED << avars, xvars >>

ApplyReplacement == \E r \in Replacements : apply_single_fix(r)

\* autofix.rs 37: every fix has been handled, Ok(fixed_content) is returned.
FixesDone ==
    /\ fx_pc = "loop"
    /\ idx > Cardinality(FixIndexes(issues))
    /\ fx_pc' = "done"
    /\ UNCHANGED << original, issues, fixed_content, offset_adjustment, fixes_applied,
                    idx, reps_left, low, reps_budget, applied_before, attempted, fix_start >>
    /\ UNCHANGED << avars, xvars >>

\* The caller is done with the returned content; the engine and its counter live on.
ResultDropped ==
    /\ fx_pc = "done"
    /\ fx_pc' = "idle"
    /\ original' = << >>
    /\ issues' = << >>
    /\ fixed_content' = << >>
    /\ offset_adjustment' = 0
    /\ idx' = 0
    /\ reps_left' = 0
    /\ low' = 0
    /\ reps_budget' = 0
    /\ applied_before' = 0
    /\ attempted' = 0
    /\ UNCHANGED << fixes_applied, fix_start >>
    /\ UNCHANGED << avars, xvars >>

InitFix ==
    /\ fs = [p \in Files |-> Missing]
    /\ clock = 0
    /\ cache = EmptyMap
    /\ dirty = FALSE
    /\ disk = [state |-> "missing", map |-> EmptyMap]
    /\ last = NoRun
    /\ prev = NoRun
    /\ touched = {}
    /\ events = 0
    /\ FixIdle
    /\ RulesIdle

NextFix ==
    \/ apply_fixes
    \/ StartFix
    \/ ApplyReplacement
    \/ FixesDone
    \/ ResultDropped

SpecFix == InitFix /\ [][NextFix]_vars

\* ------------------------------------------------------- one file task
\* RuleContext::report with the list replaced rather than pushed to.
report_Replace(list, issue) == << issue >>

\* RuleContext::report: self.issues.push(issue).
report(list, issue) == Append(list, issue)

\* for issue in issues_to_report { ctx.report(issue) }
RECURSIVE ReportAll(_, _)
ReportAll(list, out) ==
    IF out = << >> THEN list ELSE ReportAll(report(list, Head(out)), Tail(out))

\* The contents the file tasks are followed on.
TaskContents == {1, 2, 4}

\* analyze_single_file, up to the loop: the file is read and parsed and the
\* context is made with no issues.  The analyzer holds the rules of some
\* configuration.
TaskStart ==
    \E c \in TaskContents, cfg \in Configs :
        /\ r_op = "idle"
        /\ r_op' = "task"
        /\ r_in' = [content |-> c, rules |-> EnabledRules(cfg)]
        /\ r_out' = [issues |-> << >>, pos |-> 1, invoked |-> << >>]
        /\ UNCHANGED << ast_cache, ast_parsed >>
        /\ UNCHANGED << avars, fvars >>

\* One iteration of `for rule in &self.rules { rule.check(&mut ctx) }`.
RuleStep ==
    /\ r_op = "task"
    /\ r_out.pos <= Len(r_in.rules)
    /\ \E out \in RuleCheck(r_in.rules[r_out.pos], ParseItems(r_in.content)) :
          r_out' = [issues |-> ReportAll(r_out.issues, out),
                    pos |-> r_out.pos + 1,
                    invoked |-> Append(r_out.invoked, r_in.rules[r_out.pos])]
    /\ UNCHANGED << r_op, r_in, ast_cache, ast_parsed >>
    /\ UNCHANGED << avars, fvars >>

\* rule.check panics (an internal inconsistency of the rule).  Nothing between
\* the call and the caller of analyze_files catches the unwinding: not the
\* loop, not the closure handed to par_iter, not analyze_files.  The run ends
\* without results.
RulePanics ==
    /\ r_op = "task"
    /\ r_out.pos <= Len(r_in.rules)
    /\ r_op' = "aborted"
    /\ UNCHANGED << r_in, r_out, ast_cache, ast_parsed >>
    /\ UNCHANGED << avars, fvars >>

\* Ok(ctx.issues)
TaskReturns ==
    /\ r_op = "task"
    /\ r_out.pos > Len(r_in.rules)
    /\ r_op' = "task_done"
    /\ UNCHANGED << r_in, r_out, ast_cache, ast_parsed >>
    /\ UNCHANGED << avars, fvars >>

\* get_enabled_rules(&config) for some configuration.
GetEnabledRules ==
    \E cfg \in Configs :
        /\ r_op = "idle"
        /\ r_op' = "rules"
        /\ r_in' = cfg
        /\ r_out' = EnabledRules(cfg)
        /\ UNCHANGED << ast_cache, ast_parsed >>
        /\ UNCHANGED << avars, fvars >>

\* ------------------------------------------- naming rule and case fixer
\* The identifiers handed to the naming rule and to the fixer: every string of
\* at most MaxIdent of these characters, and DoThing.
IdentAlphabet == { "a", "A", "i", "I", "Idot", "1", "_" }
DoThing == << "D", "o", "T", "h", "i", "n", "g" >>
Idents == UNION { [1..n -> IdentAlphabet] : n \in 1..MaxIdent } \cup { DoThing }

\* NamingConventionRule::check on a file that declares one fn or one struct.
CheckNaming ==
    \E kind \in { "fn", "struct" }, s \in Idents :
        /\ r_op = "idle"
        /\ r_op' = "naming"
        /\ r_in' = NamedItem(kind, s)
        /\ r_out' \in NamingConventionRule(<< NamedItem(kind, s) >>)
        /\ UNCHANGED << ast_cache, ast_parsed >>
        /\ UNCHANGED << avars, fvars >>

\* NamingConventionFixer::to_snake_case: before an uppercase character an
\* underscore, unless the result is empty or ends with one; the character
\* lowercased.
RECURSIVE FixerSnake(_, _, _)
FixerSnake(s, i, result) ==
    IF i > Len(s) THEN result
    ELSE IF is_uppercase(s[i])
         THEN FixerSnake(s, i + 1,
                  (IF result # << >> /\ result[Len(result)] # "_"
                   THEN Append(result, "_") ELSE result) \o << ToLowerFirst(s[i]) >>)
         ELSE FixerSnake(s, i + 1, Append(result, s[i]))
fixer_to_snake_case(s) == FixerSnake(s, 1, << >>)

\* NamingConventionFixer::to_pascal_case: underscores dropped, the first
\* character and every character after an underscore uppercased.
RECURSIVE FixerPascal(_, _, _, _)
FixerPascal(s, i, result, capitalize_next) ==
    IF i > Len(s) THEN result
    ELSE IF s[i] = "_" THEN FixerPascal(s, i + 1, result, TRUE)
    ELSE IF capitalize_next
         THEN FixerPascal(s, i + 1, Append(result, ToUpperFirst(s[i])), FALSE)
         ELSE FixerPascal(s, i + 1, Append(result, s[i]), FALSE)
to_pascal_case_NoFirst(s) == FixerPascal(s, 1, << >>, FALSE)
to_pascal_case(s) == FixerPascal(s, 1, << >>, TRUE)

\* The fixer converts an identifier to snake_case and the result to PascalCase.
ConvertCase ==
    \E s \in Idents :
        /\ r_op = "idle"
        /\ r_op' = "case"
        /\ r_in' = s
        /\ r_out' = [snake |-> fixer_to_snake_case(s),
                     pascal |-> to_pascal_case(fixer_to_snake_case(s))]
        /\ UNCHANGED << ast_cache, ast_parsed >>
        /\ UNCHANGED << avars, fvars >>

\* ------------------------------------------------------------ complexity
\* A statement: syn::Stmt::Expr, syn::Stmt::Local with an initializer, or
\* another statement (an item, a macro).  An expression: if, match with
\* `arms` arms, a loop (while, for, loop), a binary && or ||, or another
\* expression; `kids` are the statements of its block, or its operands.
MkExpr(kind, arms, kids) == [kind |-> kind, arms |-> arms, kids |-> kids]
MkStmt(stmt, e) == [stmt |-> stmt, expr |-> e]

Leaf(kind) == MkExpr(kind, 0, << >>)
InnerBlocks == { << >>, << MkStmt("expr", Leaf("if")) >>, << MkStmt("expr", Leaf("other")) >> }
Exprs ==
    { MkExpr(k, 0, b) : k \in { "if", "loop", "and" }, b \in InnerBlocks }
    \cup { MkExpr("match", 0, << >>), MkExpr("match", 3, << >>), Leaf("other") }
Stmts == { MkStmt(k, e) : k \in { "expr", "local" }, e \in Exprs }
         \cup { MkStmt("item", Leaf("other")) }
FiveIfs == [i \in 1..5 |-> MkStmt("expr", Leaf("if"))]
Bodies == UNION { [1..n -> Stmts] : n \in 0..MaxStmts } \cup { FiveIfs }

\* arms.len().saturating_sub(1)
SaturatingSub(a, b) == IF a >= b THEN a - b ELSE 0

\* count_decision_points_expr: the kind of the expression alone decides.
count_decision_points_expr(e) ==
    CASE e.kind = "if" -> 1
      [] e.kind = "match" -> SaturatingSub(e.arms, 1)
      [] e.kind = "loop" -> 1
      [] e.kind = "and" -> 1
      [] OTHER -> 0

count_decision_points_stmt(st) ==
    IF st.stmt \in { "expr", "local" } THEN count_decision_points_expr(st.expr) ELSE 0

\* let mut complexity = 1; for stmt in stmts { complexity += .. }
RECURSIVE CyclomaticFrom(_, _)
CyclomaticFrom(stmts, i) ==
    IF i > Len(stmts) THEN 0
    ELSE count_decision_points_stmt(stmts[i]) + CyclomaticFrom(stmts, i + 1)

calculate_cyclomatic_complexity(stmts) == 1 + CyclomaticFrom(stmts, 1)

\* count_cognitive_complexity_expr
count_cognitive_complexity_expr(e, nesting_level) ==
    CASE e.kind \in { "if", "match", "loop" } -> 1 + nesting_level
      [] e.kind = "and" -> 1
      [] OTHER -> 0

count_cognitive_complexity_stmt(st, nesting_level) ==
    IF st.stmt \in { "expr", "local" }
    THEN count_cognitive_complexity_expr(st.expr, nesting_level) ELSE 0

\* let mut complexity = 0; for stmt in stmts { complexity += .. }
RECURSIVE CognitiveFrom(_, _, _)
CognitiveFrom(stmts, nesting_level, i) ==
    IF i > Len(stmts) THEN 0
    ELSE count_cognitive_complexity_stmt(stmts[i], nesting_level)
         + CognitiveFrom(stmts, nesting_level, i + 1)

calculate_cognitive_complexity(stmts, nesting_level) == CognitiveFrom(stmts, nesting_level, 1)

\* The two complexity rules measure the body of a function.
MeasureComplexity ==
    \E body \in Bodies :
        /\ r_op = "idle"
        /\ r_op' = "complexity"
        /\ r_in' = body
        /\ r_out' = [cyclomatic |-> calculate_cyclomatic_complexity(body),
                     cognitive |-> calculate_cognitive_complexity(body, 0)]
        /\ UNCHANGED << ast_cache, ast_parsed >>
        /\ UNCHANGED << avars, fvars >>

\* ---- UnmatchedDelimitersRule (rules/syntax.rs)
\* The characters of a content that matter to the scan: the braces ("open",
\* "close"), the double quote, the slash and the line break; the other text of
\* the file is left out.
ScanAlphabet == { "open", "close", "quote", "slash", "newline" }
ScanContents == UNION { [1..n -> ScanAlphabet] : n \in 0..MaxChars }

\* UnmatchedDelimitersRule::check, lines 14-49: in_string and in_comment are
\* bound once to false, every brace moves depth, and every `}` that leaves
\* depth below 0 is reported with its line and column.
RECURSIVE ScanFrom(_, _, _, _, _)
ScanFrom(content, i, depth, line, col) ==
    IF i > Len(content) THEN << >>
    ELSE CASE content[i] = "newline" -> ScanFrom(content, i + 1, depth, line + 1, 0)
           [] content[i] = "open" -> ScanFrom(content, i + 1, depth + 1, line, col + 1)
           [] content[i] = "close" ->
                (IF depth - 1 < 0
                 THEN << MkIssue("unmatched-delimiters", "Error", << "Unmatched closing brace" >>,
                                 << line, col + 1 >>, NoFix) >>
                 ELSE << >>)
                \o ScanFrom(content, i + 1, depth - 1, line, col + 1)
           [] OTHER -> ScanFrom(content, i + 1, depth, line, col + 1)

UnmatchedDelimitersRule(content) == ScanFrom(content, 1, 0, 1, 0)

\* The rule checks a content.
CheckDelimiters ==
    \E content \in ScanContents :
        /\ r_op = "idle"
        /\ r_op' = "delimiters"
        /\ r_in' = content
        /\ r_out' = UnmatchedDelimitersRule(content)
        /\ UNCHANGED << ast_cache, ast_parsed >>
        /\ UNCHANGED << avars, fvars >>

InitRules ==
    /\ fs = [p \in Files |-> Missing]
    /\ clock = 0
    /\ cache = EmptyMap
    /\ dirty = FALSE
    /\ disk = [state |-> "missing", map |-> EmptyMap]
    /\ last = NoRun
    /\ prev = NoRun
    /\ touched = {}
    /\ events = 0
    /\ FixIdle
    /\ RulesIdle

NextRules ==
    \/ TaskStart
    \/ RuleStep
    \/ RulePanics
    \/ TaskReturns
    \/ GetEnabledRules
    \/ CheckNaming
    \/ ConvertCase
    \/ MeasureComplexity
    \/ CheckDelimiters

SpecRules == InitRules /\ [][NextRules]_vars

\* ------------------------------------------------------------- ASTCache
\* ASTCache::cache_stats: the number of entries and the bytes of their
\* serialized ASTs.
RECURSIVE TokenBytes(_, _)
TokenBytes(c, ps) ==
    IF ps = {} THEN 0
    ELSE LET p == CHOOSE q \in ps : TRUE
         IN c[p].ast_tokens + TokenBytes(c, ps \ {p})
cache_stats(c) ==
    [total_entries |-> Cardinality(DOMAIN c),
     total_size_bytes |-> TokenBytes(c, DOMAIN c)]

\* ASTCache::get_or_parse(path): reads the file, hashes the content and
\* parses it; Err when the file cannot be read or parsed.  The map is neither
\* looked up nor written.
get_or_parse ==
    \E p \in Files :
        LET ok == fs[p].status = "ok" /\ ParseOk(fs[p].content)
        IN /\ r_op' = "get_or_parse"
           /\ r_in' = p
           /\ r_out' = [ok |-> ok, items |-> IF ok THEN ParseItems(fs[p].content) ELSE << >>]
           /\ ast_cache' = ast_cache
           /\ ast_parsed' = IF ok THEN ast_parsed \cup {p} ELSE ast_parsed
           /\ UNCHANGED << avars, fvars >>

\* ASTCache::invalidate(path): cache_write.remove(path).
invalidate ==
    \E p \in Files :
        /\ r_op' = "invalidate"
        /\ r_in' = p
        /\ r_out' = << >>
        /\ ast_cache' = [q \in DOMAIN ast_cache \ {p} |-> ast_cache[q]]
        /\ ast_parsed' = ast_parsed \ {p}
        /\ UNCHANGED << avars, fvars >>

\* ASTCache::clear: cache_write.clear().
clear ==
    /\ r_op' = "clear"
    /\ r_in' = << >>
    /\ r_out' = << >>
    /\ ast_cache' = [q \in {} |-> << >>]
    /\ ast_parsed' = {}
    /\ UNCHANGED << avars, fvars >>

InitAst ==
    /\ fs \in [Files -> {Missing, [status |-> "ok", content |-> 1, mtime |-> 0]}]
    /\ clock = 0
    /\ cache = EmptyMap
    /\ dirty = FALSE
    /\ disk = [state |-> "missing", map |-> EmptyMap]
    /\ last = NoRun
    /\ prev = NoRun
    /\ touched = {}
    /\ events = 0
    /\ FixIdle
    /\ RulesIdle

NextAst ==
    \/ WriteFile
    \/ RemoveFile
    \/ Chmod
    \/ Tick
    \/ get_or_parse
    \/ invalidate
    \/ clear

SpecAst == InitAst /\ [][NextAst]_vars

\* ---------------------------------------------- the two parallel drivers
\* Analyzer::analyze_files_parallel (analyzer.rs) and
\* FastLinter::lint_files_parallel (lib.rs), one step per worker action.  A
\* driver starts when no other one is running; r_in holds its inputs and
\* r_out its stack and the state its workers share.
ParIdle == r_op \in { "idle", "collected", "linted" }

\* The body of the worker closure with the test of is_empty left out.
InsertIfAny_EvenEmpty(m, p, res) == IF res.ok THEN (p :> res.issues) @@ m ELSE m

\* The body of the worker closure: the issues are inserted when the file was
\* read and parsed and the list is not empty (DashMap::insert overwrites).
InsertIfAny(m, p, res) == IF res.ok /\ res.issues # << >> THEN (p :> res.issues) @@ m ELSE m

\* analyze_files_parallel is entered: the list is in the order find_rust_files
\* gave, the DashMap is empty.
ParStart ==
    \E S \in FileLists, par \in BOOLEAN :
        \E files \in Orders(S) :
            /\ ParIdle
            /\ r_op' = "parallel"
            /\ r_in' = [files |-> files, parallel_analysis |-> par]
            /\ r_out' = [todo |-> S, file_issues |-> EmptyMap, found |-> EmptyMap,
                         inserts |-> [p \in S |-> 0], finished |-> << >>]
            /\ UNCHANGED << ast_cache, ast_parsed >>
            /\ UNCHANGED << avars, fvars >>

\* One file of the list: analyze_single_file, on the worker's own stack, then
\* the insert.  par_iter takes the files in any order, the loop of the
\* sequential mode in the order of the list.
WorkerFile ==
    \E k \in 1..Cardinality(Files) :
        /\ r_op = "parallel"
        /\ k <= Len(r_in.files)
        /\ r_in.files[k] \in r_out.todo
        /\ r_in.parallel_analysis \/ \A j \in 1..(k - 1) : r_in.files[j] \notin r_out.todo
        /\ \E res \in analyze_single_file(fs, r_in.files[k]) :
              LET p == r_in.files[k]
                  m == InsertIfAny(r_out.file_issues, p, res)
              IN r_out' = [r_out EXCEPT
                      !.todo = @ \ {p},
                      !.file_issues = m,
                      !.found = (p :> res) @@ @,
                      !.inserts[p] = IF m # r_out.file_issues \/ p \in DOMAIN r_out.file_issues
                                     THEN @ + 1 ELSE @,
                      !.finished = Append(@, p)]
        /\ UNCHANGED << r_op, r_in, ast_cache, ast_parsed >>
        /\ UNCHANGED << avars, fvars >>

\* Every file was taken: the DashMap is collected into the map returned.
ParReturns ==
    /\ r_op = "parallel"
    /\ r_out.todo = {}
    /\ r_op' = "collected"
    /\ UNCHANGED << r_in, r_out, ast_cache, ast_parsed >>
    /\ UNCHANGED << avars, fvars >>

\* The files lint_files_parallel is given: one whose checks find nothing (or
\* that cannot be read: lint_file gives vec![] then too) and one whose checks
\* push two errors.
LintFiles == { "clean", "flawed" }

\* lint_file on the file at index k of the list: the LintErrors of its
\* checks, in the order they were pushed; each names its file.
lint_file(files, k) ==
    LET errors == IF files[k] = "flawed" THEN << "missing_docs", "unused_import" >> ELSE << >>
    IN [j \in 1..Len(errors) |-> [file |-> k, rule |-> errors[j]]]

\* files_per_thread rounded down.
files_per_thread_Floor(n, num_threads) == n \div num_threads

\* (files.len() + num_threads - 1) / num_threads
files_per_thread(n, num_threads) == (n + num_threads - 1) \div num_threads

\* lint_files_parallel is entered: num_threads is what the machine has, the
\* channel is created.
LintStart ==
    \E n \in 0..MaxFiles, num_threads \in 1..MaxThreads :
        \E files \in [1..n -> LintFiles] :
            /\ ParIdle
            /\ r_op' = "lint"
            /\ r_in' = [files |-> files, num_threads |-> num_threads]
            /\ r_out' = [pc |-> "spawn", i |-> 0, handles |-> << >>, channel |-> << >>,
                         tx |-> TRUE, all_errors |-> << >>, linted |-> [k \in 1..n |-> 0]]
            /\ UNCHANGED << ast_cache, ast_parsed >>
            /\ UNCHANGED << avars, fvars >>

\* One turn of the closure over 0..num_threads: the chunk of thread i, and the
\* thread spawned with its clone of the sender, or None past the end of the list.
Spawn ==
    /\ r_op = "lint"
    /\ r_out.pc = "spawn"
    /\ LET n == Len(r_in.files)
           i == r_out.i
           start_idx == i * files_per_thread(n, r_in.num_threads)
           end_idx == Min((i + 1) * files_per_thread(n, r_in.num_threads), n)
       IN r_out' = [r_out EXCEPT
               !.handles = IF start_idx >= n THEN @
                           ELSE Append(@, [start_idx |-> start_idx, end_idx |-> end_idx,
                                           next |-> start_idx, running |-> TRUE]),
               !.i = i + 1,
               !.pc = IF i + 1 = r_in.num_threads THEN "drop" ELSE "spawn"]
    /\ UNCHANGED << r_op, r_in, ast_cache, ast_parsed >>
    /\ UNCHANGED << avars, fvars >>

\* drop(tx): the sender of the main thread is gone.
DropTx ==
    /\ r_op = "lint"
    /\ r_out.pc = "drop"
    /\ r_out' = [r_out EXCEPT !.tx = FALSE, !.pc = "recv"]
    /\ UNCHANGED << r_op, r_in, ast_cache, ast_parsed >>
    /\ UNCHANGED << avars, fvars >>

\* A worker lints the next file of its chunk and sends the errors.  The
\* receiver lives until lint_files_parallel returns, after the joins, so
\* send does not fail.
WorkerSend(w) ==
    /\ r_op = "lint"
    /\ w <= Len(r_out.handles)
    /\ r_out.handles[w].running
    /\ r_out.handles[w].next < r_out.handles[w].end_idx
    /\ LET k == r_out.handles[w].next + 1
       IN r_out' = [r_out EXCEPT
               !.channel = Append(@, lint_file(r_in.files, k)),
               !.linted[k] = @ + 1,
               !.handles[w].next = @ + 1]
    /\ UNCHANGED << r_op, r_in, ast_cache, ast_parsed >>
    /\ UNCHANGED << avars, fvars >>

\* A worker is through its chunk: the closure ends and drops its sender.
WorkerExit(w) ==
    /\ r_op = "lint"
    /\ w <= Len(r_out.handles)
    /\ r_out.handles[w].running
    /\ r_out.handles[w].next = r_out.handles[w].end_idx
    /\ r_out' = [r_out EXCEPT !.handles[w].running = FALSE]
    /\ UNCHANGED << r_op, r_in, ast_cache, ast_parsed >>
    /\ UNCHANGED << avars, fvars >>

\* rx.recv(): the next message is taken and appended; with an empty channel
\* recv blocks while a sender lives and gives Err, which ends the loop, when
\* none is left.
Receive ==
    /\ r_op = "lint"
    /\ r_out.pc = "recv"
    /\ IF r_out.channel # << >>
       THEN r_out' = [r_out EXCEPT !.all_errors = @ \o Head(r_out.channel),
                                   !.channel = Tail(@)]
       ELSE /\ ~r_out.tx
            /\ \A w \in 1..Len(r_out.handles) : ~r_out.handles[w].running
            /\ r_out' = [r_out EXCEPT !.pc = "join"]
    /\ UNCHANGED << r_op, r_in, ast_cache, ast_parsed >>
    /\ UNCHANGED << avars, fvars >>

\* The joins, each waiting for its thread to end, and the return of all_errors.
Join ==
    /\ r_op = "lint"
    /\ r_out.pc = "join"
    /\ \A w \in 1..Len(r_out.handles) : ~r_out.handles[w].running
    /\ r_op' = "linted"
    /\ r_out' = [r_out EXCEPT !.pc = "returned"]
    /\ UNCHANGED << r_in, ast_cache, ast_parsed >>
    /\ UNCHANGED << avars, fvars >>

InitPar ==
    /\ fs \in [Files -> {Missing, [status |-> "ok", content |-> 1, mtime |-> 0],
                         [status |-> "ok", content |-> 3, mtime |-> 0],
                         [status |-> "ok", content |-> 5, mtime |-> 0]}]
    /\ clock = 0
    /\ disk = [state |-> "missing", map |-> EmptyMap]
    /\ cache = new(disk).cache
    /\ dirty = new(disk).dirty
    /\ last = NoRun
    /\ prev = NoRun
    /\ touched = {}
    /\ events = 0
    /\ FixIdle
    /\ RulesIdle

NextPar ==
    \/ ParStart
    \/ WorkerFile
    \/ ParReturns
    \/ LintStart
    \/ Spawn
    \/ DropTx
    \/ \E w \in 1..MaxThreads : WorkerSend(w)
    \/ \E w \in 1..MaxThreads : WorkerExit(w)
    \/ Receive
    \/ Join

SpecPar == InitPar /\ [][NextPar]_vars

\* The threads of lint_files_parallel are scheduled by the operating system:
\* the main thread and every worker that can take a step takes one.
SpecParFair ==
    /\ SpecPar
    /\ WF_vars(Spawn)
    /\ WF_vars(DropTx)
    /\ WF_vars(Receive)
    /\ WF_vars(Join)
    /\ \A w \in 1..MaxThreads : WF_vars(WorkerSend(w) \/ WorkerExit(w))

\* ------------------------------------------------- claims on the analyzer
\* The file was on disk, readable and parsable when the last run started.
Parsable(r, f) == r.at_start[f].status = "ok" /\ ParseOk(r.at_start[f].content)

\* C1 as stated: an analyzer's first two runs over the single, parsable,
\* unmodified file report (files_analyzed, files_from_cache) = (1, 0), then (0, 1).
C1_FirstRunAnalyzes ==
    \A f \in Files :
        (prev.done /\ prev.first /\ prev.files = {f} /\ last.files = {f}
         /\ f \notin last.before /\ Parsable(last, f))
        => /\ prev.files_analyzed = 1 /\ prev.files_from_cache = 0
           /\ last.files_analyzed = 0 /\ last.files_from_cache = 1

\* C1 amended: two consecutive runs over the single, parsable, unmodified file,
\* the cache holding no entry for it when the first of them starts, report
\* (files_analyzed, files_from_cache) = (1, 0), then (0, 1).
C1_TwoRuns ==
    \A f \in Files :
        (prev.done /\ prev.files = {f} /\ last.files = {f}
         /\ f \notin last.before /\ Parsable(last, f) /\ f \notin prev.had_entry)
        => /\ prev.files_analyzed = 1 /\ prev.files_from_cache = 0
           /\ last.files_analyzed = 0 /\ last.files_from_cache = 1

C1_Witness ==
    \E f \in Files :
        /\ prev.done /\ prev.files = {f} /\ last.files = {f}
        /\ f \notin last.before /\ Parsable(last, f) /\ f \notin prev.had_entry
        /\ f \in DOMAIN prev.new_issues /\ f \in DOMAIN last.cached_issues

\* C2: a file whose content differs between two runs is freshly analyzed by
\* the second run and not served from the cache.
C2_ModifiedIsReanalyzed ==
    \A f \in Files :
        (prev.done /\ f \in prev.files /\ f \in last.files
         /\ prev.at_start[f].status = "ok" /\ Parsable(last, f)
         /\ prev.at_start[f].content # last.at_start[f].content)
        => f \in DOMAIN last.new_issues /\ f \notin DOMAIN last.cached_issues

\* C3: a file analyzed fresh by one run and left unmodified is served from the
\* cache by the next run, with the first run's issues in the same order.
C3_CacheEquivalence ==
    \A f \in Files :
        (prev.done /\ f \in DOMAIN prev.new_issues /\ f \in last.files /\ f \notin last.before)
        => /\ f \in DOMAIN last.cached_issues
           /\ last.cached_issues[f] = prev.new_issues[f]
           /\ f \notin DOMAIN last.new_issues
           /\ last.files_from_cache >= 1

C3_Witness ==
    \E f \in Files :
        /\ prev.done /\ f \in DOMAIN prev.new_issues /\ f \in last.files /\ f \notin last.before
        /\ Len(prev.new_issues[f]) = 2
        /\ last.cached_issues[f] = prev.new_issues[f]

\* C4: two fresh analyses of the same content, in one run or in two
\* consecutive runs, give the same issue list.
C4_SameContentSameIssues ==
    \A r1, r2 \in {prev, last} :
        \A f \in DOMAIN r1.new_issues, g \in DOMAIN r2.new_issues :
            r1.at_start[f].content = r2.at_start[g].content
            => r1.new_issues[f] = r2.new_issues[g]

\* The listed files whose metadata could not be read when the run started.
NoMetadata(r) == { f \in r.files : r.at_start[f].status = "missing" }

\* C9: a run counts the files whose metadata cannot be read in files_skipped,
\* reports them in neither new_issues nor cached_issues, and neither creates
\* nor overwrites a cache entry for them.
C9_CacheErrorSkipped ==
    [][ (last' # last /\ last'.done)
        => /\ last'.files_skipped = Cardinality(NoMetadata(last'))
           /\ \A f \in NoMetadata(last') :
                /\ f \notin DOMAIN last'.new_issues
                /\ f \notin DOMAIN last'.cached_issues
                /\ f \in DOMAIN cache' => (f \in DOMAIN cache /\ cache'[f] = cache[f]) ]_vars

C9_Witness ==
    \E f \in NoMetadata(last) :
        /\ last.done /\ f \in last.had_entry
        /\ last.files_skipped = 1 /\ last.files_analyzed = 1

\* The listed files that were sent to analysis and did not parse.
Unparsable(r) ==
    { f \in r.files : /\ r.at_start[f].status = "ok"
                      /\ ~ParseOk(r.at_start[f].content)
                      /\ f \notin DOMAIN r.cached_issues }

\* C10: every listed file that is not unparsable is counted in exactly one of
\* files_analyzed, files_from_cache and files_skipped; an unreadable file is
\* counted in files_skipped.
C10_UnreadableCounted ==
    last.done =>
        last.files_analyzed + last.files_from_cache + last.files_skipped
            = Cardinality(last.files \ Unparsable(last))

\* C17: a cache constructed over a missing or corrupt cache file is empty and
\* not dirty, and the first run of its analyzer serves nothing from the cache
\* and analyzes every listed file that can be read and parsed.
C17_MissingOrCorruptIsEmpty ==
    [][ /\ (~last'.done /\ disk'.state # "valid") => (cache' = EmptyMap /\ ~dirty')
        /\ (~last.done /\ last'.done /\ disk.state # "valid")
             => /\ last'.files_from_cache = 0
                /\ last'.cached_issues = EmptyMap
                /\ \A f \in last'.files : Parsable(last', f) => f \in DOMAIN last'.new_issues ]_vars

\* An analyzer constructed over the corrupt cache file has analyzed a file.
C17_Witness ==
    /\ disk.state = "corrupt"
    /\ last.done /\ last.first
    /\ last.files_analyzed >= 1
    /\ ~MetadataOk(fs, "b.rs")

C11_RunNeverAborts == r_op # "aborted"

IsPrefix(a, b) == Len(a) <= Len(b) /\ SubSeq(b, 1, Len(a)) = a

\* C12: in a file task the rules of the list are invoked once each in
\* registration order, no step of the loop removes or reorders the issues
\* reported before it, and the task returns the concatenation of the rules'
\* issues in registration order.
C12_RulesOnceInOrder ==
    [][ r_op' \in { "task", "task_done" }
        => /\ r_out'.invoked = SubSeq(r_in'.rules, 1, r_out'.pos - 1)
           /\ r_op = "task" => IsPrefix(r_out.issues, r_out'.issues)
           /\ r_op' = "task_done"
                => /\ r_out'.invoked = r_in'.rules
                   /\ r_out'.issues \in ApplyRules(r_in'.rules, ParseItems(r_in'.content), << >>) ]_vars

\* A task under the default configuration returned the issues of two rules.
C12_Witness ==
    /\ r_op = "task_done"
    /\ r_in.rules = EnabledRules(DefaultConfig)
    /\ Len(r_out.issues) = 2
    /\ r_out.issues[1].rule = "unused-import"
    /\ r_out.issues[2].rule = "missing-docs"

\* The rules of the family a flag names (the name() of the rule files).
FamilyRules(flag) ==
    CASE flag = "check_syntax" -> { "unmatched-delimiters", "invalid-syntax" }
      [] flag = "check_naming" -> { "naming-convention" }
      [] flag = "check_line_length" -> { "line-too-long" }
      [] flag = "check_imports" -> { "import-order", "unused-import" }
      [] flag = "check_unsafe" -> { "unsafe-block" }
      [] flag = "check_complexity" -> { "cyclomatic-complexity", "cognitive-complexity" }
      [] flag = "check_missing_docs" -> { "missing-docs" }
      [] flag = "check_unwrap_usage" -> { "unwrap_usage" }
      [] flag = "check_todo_macros" -> { "todo_macros" }
      [] flag = "check_must_use" -> { "must_use_violations" }
      [] flag = "check_anti_patterns" -> { "anti_patterns" }
      [] OTHER -> {}

Range(seq) == { seq[i] : i \in 1..Len(seq) }

\* C13: the rules of a family are in the list of get_enabled_rules iff the
\* family's flag is true, and a task under the default configuration on a
\* file with a bare .unwrap() statement returns an unwrap_usage Warning.
C13_FlagsEnableFamilies ==
    /\ r_op = "rules"
         => \A f \in Flags :
               /\ r_in[f] => FamilyRules(f) \subseteq Range(r_out)
               /\ ~r_in[f] => FamilyRules(f) \cap Range(r_out) = {}
    /\ (r_op = "task_done" /\ r_in.content = 4 /\ r_in.rules = EnabledRules(DefaultConfig))
         => \E i \in 1..Len(r_out.issues) :
               r_out.issues[i].rule = "unwrap_usage" /\ r_out.issues[i].severity = "Warning"

\* C14: every naming-convention issue carries a fix whose one replacement
\* holds the corrected identifier; for the function DoThing it is do_thing.
C14_NamingIssueCarriesFix ==
    r_op = "naming"
    => /\ \A i \in 1..Len(r_out) :
            /\ r_out[i].fix.present
            /\ Len(r_out[i].fix.replacements) = 1
            /\ r_in.kind = "fn" => r_out[i].fix.replacements[1].text = to_snake_case(r_in.chars)
       /\ (r_in.kind = "fn" /\ r_in.chars = DoThing)
            => /\ Len(r_out) = 1
               /\ r_out[1].fix.replacements[1].text = << "d", "o", "_", "t", "h", "i", "n", "g" >>

\* The decision points of an expression and of the statements under it: one
\* for an if, a loop, a && or ||, the arms less one for a match.
RECURSIVE DecisionPoints(_)
DecisionPoints(stmts) ==
    IF stmts = << >> THEN 0
    ELSE LET st == Head(stmts)
             own == IF st.stmt = "item" THEN 0
                    ELSE (CASE st.expr.kind \in { "if", "loop", "and" } -> 1
                            [] st.expr.kind = "match" -> SaturatingSub(st.expr.arms, 1)
                            [] OTHER -> 0)
                         + DecisionPoints(st.expr.kids)
         IN own + DecisionPoints(Tail(stmts))

\* C15: the cyclomatic complexity of a body is 1 plus the number of decision
\* points in it, wherever they stand; five independent ifs give 6.
C15_CyclomaticCountsAll ==
    r_op = "complexity"
    => /\ r_out.cyclomatic = 1 + DecisionPoints(r_in)
       /\ r_in = FiveIfs => r_out.cyclomatic = 6

\* The sum over the decision points of 1 + the nesting depth of the point.
RECURSIVE NestedCost(_, _)
NestedCost(stmts, depth) ==
    IF stmts = << >> THEN 0
    ELSE LET st == Head(stmts)
             own == IF st.stmt = "item" THEN 0
                    ELSE (IF st.expr.kind \in { "if", "match", "loop", "and" }
                          THEN 1 + depth ELSE 0)
                         + NestedCost(st.expr.kids,
                                      IF st.expr.kind = "and" THEN depth ELSE depth + 1)
         IN own + NestedCost(Tail(stmts), depth)

\* C16: the cognitive complexity of a body is the sum over its decision
\* points of 1 + the nesting depth, so a decision point one level deeper
\* costs one more.
C16_CognitiveCountsNesting ==
    r_op = "complexity" => r_out.cognitive = NestedCost(r_in, 0)

\* The identifier is made of letters and digits and starts with an uppercase letter.
PascalIdent(s) == is_pascal_case(s)
AsciiIdent(s) == \A i \in 1..Len(s) : s[i] # "Idot"
SnakeChars(s) == \A i \in 1..Len(s) : is_lowercase(s[i]) \/ is_numeric(s[i]) \/ s[i] = "_"

\* C20 as stated: for every identifier of letters and digits that starts with
\* an uppercase letter, to_snake_case gives lowercase letters, digits and one
\* underscore before each interior uppercase letter, and to_pascal_case
\* gives the identifier back.
C20_RoundTripAllLetters ==
    (r_op = "case" /\ PascalIdent(r_in))
    => /\ SnakeChars(r_out.snake)
       /\ r_out.snake = to_snake_case(r_in)
       /\ r_out.pascal = r_in

\* C20 amended: the same for identifiers of ASCII letters and digits.
C20_RoundTripAscii ==
    (r_op = "case" /\ PascalIdent(r_in) /\ AsciiIdent(r_in))
    => /\ SnakeChars(r_out.snake)
       /\ r_out.snake = to_snake_case(r_in)
       /\ r_out.pascal = r_in

\* An identifier with an interior uppercase letter and a digit was converted.
C20_Witness ==
    /\ r_op = "case"
    /\ r_in = << "A", "I", "1" >>
    /\ r_out.snake = << "a", "_", "i", "1" >>
    /\ r_out.pascal = r_in

\* ------------------------------------------------------ ASTCache claims
\* C19: after get_or_parse succeeds for a file the AST cache holds an entry
\* for that path: cache_stats().total_entries is the number of distinct files
\* parsed (and not invalidated since), and total_size_bytes > 0.
C19_ParsedFileHasEntry ==
    (r_op = "get_or_parse" /\ r_out.ok)
        => /\ r_in \in DOMAIN ast_cache
           /\ cache_stats(ast_cache).total_entries = Cardinality(ast_parsed)
           /\ cache_stats(ast_cache).total_size_bytes > 0

\* The scan C24 describes: a depth counter moved by the braces met in the
\* normal state only, a double quote entering and leaving a string literal, two
\* slashes starting a line comment that ends with the line; a `}` counted
\* with depth 0 is reported and every `}` counted lowers the depth.
RECURSIVE NormalStateScan(_, _, _, _, _, _)
NormalStateScan(content, i, depth, mode, line, col) ==
    IF i > Len(content) THEN << >>
    ELSE LET ch == content[i]
             next(d, m) == NormalStateScan(content, i + 1, d, m, line, col + 1)
         IN CASE ch = "newline" ->
                   NormalStateScan(content, i + 1, depth,
                                   IF mode = "in_line_comment" THEN "normal" ELSE mode, line + 1, 0)
              [] ch = "quote" /\ mode = "normal" -> next(depth, "in_string")
              [] ch = "quote" /\ mode = "in_string" -> next(depth, "normal")
              [] ch = "slash" /\ mode = "normal" /\ i < Len(content) /\ content[i + 1] = "slash" ->
                   next(depth, "in_line_comment")
              [] ch = "open" /\ mode = "normal" -> next(depth + 1, mode)
              [] ch = "close" /\ mode = "normal" ->
                   (IF depth - 1 < 0
                    THEN << MkIssue("unmatched-delimiters", "Error",
                                    << "Unmatched closing brace" >>, << line, col + 1 >>, NoFix) >>
                    ELSE << >>) \o next(depth - 1, mode)
              [] OTHER -> next(depth, mode)

\* C24: the unmatched-delimiters rule counts the braces in the normal state
\* only, ignoring those inside string literals and comments, and reports
\* "Unmatched closing brace" exactly when a counted `}` makes the depth negative.
C24_BracesInLiteralsIgnored ==
    r_op = "delimiters"
    => LET reported == NormalStateScan(r_in, 1, 0, "normal", 1, 0)
       IN /\ Len(r_out) = Len(reported)
          /\ \A i \in 1..Len(reported) : r_out[i] = reported[i]

\* ------------------------------------------- claims on the steps of a run
\* The entry of p in cache c is the entry of the file as it is on disk.
Fresh(c, fsys, p) == p \in DOMAIN c /\ MetadataOk(fsys, p) /\ c[p].hash = get_metadata(fsys, p)

\* C21: right after the sweep the cache holds no entry of a path that no
\* longer exists and no entry whose fingerprint differs from the file's, every
\* entry of an existing, unchanged file is retained, and the run's
\* cached_issues are those of retained entries of listed files.
C21_SweepLeavesFreshEntries ==
    [][ (r_op # "analyze" /\ r_op' = "analyze")
        => /\ \A p \in DOMAIN cache' : Fresh(cache', fs, p)
           /\ \A p \in DOMAIN cache : Fresh(cache, fs, p) => (p \in DOMAIN cache' /\ cache'[p] = cache[p])
           /\ \A p \in DOMAIN r_out'.cached_issues :
                 /\ p \in r_in' /\ Fresh(cache, fs, p)
                 /\ r_out'.cached_issues[p] = cache[p].issues ]_vars

\* The sweep removed the entry of one file and the run serves the other
\* file from the cache.
C21_Witness ==
    /\ r_op = "analyze"
    /\ r_out.swept_out # {}
    /\ DOMAIN r_out.cached_issues # {}

\* C22 as stated: when analyze_files returns, the cache holds for every path
\* of new_issues an entry with the issues of new_issues, and the cache is
\* dirty when a file was analyzed.
C22_EveryAnalyzedFileStored ==
    [][ (r_op = "analyze" /\ r_op' = "returned")
        => /\ \A p \in DOMAIN r_out.new_issues :
                 p \in DOMAIN cache /\ cache[p].issues = r_out.new_issues[p]
           /\ DOMAIN r_out.new_issues # {} => dirty ]_vars

\* C22 amended: store_analysis writes the entry of a path of new_issues, with
\* the fingerprint of the file as it is then, and marks the cache dirty, when
\* the file's metadata can be read; else it changes nothing.  When
\* analyze_files returns the cache holds the entries written, with the issues
\* of new_issues, and is dirty when one was written.
C22_StoredWhenMetadataReadable ==
    [][ /\ \A p \in Files :
             (r_op = "analyze" /\ p \in r_out.to_store /\ p \notin r_out'.to_store)
             => IF MetadataOk(fs, p)
                THEN /\ p \in DOMAIN cache'
                     /\ cache'[p] = [hash |-> get_metadata(fs, p), issues |-> r_out.new_issues[p]]
                     /\ dirty'
                ELSE cache' = cache /\ dirty' = dirty
        /\ (r_op = "analyze" /\ r_op' = "returned")
             => /\ \A p \in r_out.stored :
                      p \in DOMAIN cache /\ cache[p].issues = r_out.new_issues[p]
                /\ r_out.stored # {} => dirty ]_vars

\* A run returned with one analyzed file stored and another one, removed
\* after its analysis, not stored.
C22_Witness ==
    /\ r_op = "returned"
    /\ r_out.stored # {}
    /\ (DOMAIN r_out.new_issues) \ r_out.stored # {}

\* C27: the entry store_analysis writes pairs the fingerprint with the issues
\* of the content that has that fingerprint: the file holds, when its
\* fingerprint is taken, the content the issues were computed from.
C27_EntryOfContentRead ==
    [][ \A p \in Files :
          (r_op = "analyze" /\ p \in r_out.to_store /\ p \in r_out'.stored)
          => fs[p].content = r_out.read[p] ]_vars

\* C30: whenever the in-memory map differs from the map last saved to or
\* loaded from disk the dirty flag is true; the cache file is written only
\* when dirty is true; dirty is cleared only when the file holds the whole
\* map, and stays set when the write fails; a step that writes the file
\* leaves the map as it is.
C30_DirtyTracksDisk ==
    /\ cache # disk.map => dirty
    /\ [][ /\ cache' # disk'.map => dirty'
           /\ disk' # disk
                => /\ dirty
                   /\ cache' = cache
                   /\ IF dirty' THEN disk'.state = "corrupt" /\ disk'.map = disk.map
                                ELSE disk' = [state |-> "valid", map |-> cache]
           /\ (dirty /\ ~dirty') => (cache' = disk'.map /\ disk'.state = "valid") ]_vars

\* The cache was saved and has been changed since.
C30_Witness ==
    /\ disk.state = "valid"
    /\ DOMAIN disk.map # {}
    /\ cache # disk.map
    /\ dirty

\* ------------------------------------------------ claims on the fix engine
\* The translated range of replacement r, as signed numbers.
TStart(r) == r.start + offset_adjustment
TEnd(r) == r.end + offset_adjustment

\* The step handles replacement r and applies it: the fix goes on to its next
\* replacement, or it is counted.
Applies(r) == (fx_pc' = "fix" \/ fixes_applied' # fixes_applied) /\ apply_single_fix(r)

\* The step ends the current fix as not applicable: nothing is changed or
\* counted, the rest of the fix is not reached, the loop stands at the next fix.
EndsFixUnapplied ==
    /\ fixed_content' = fixed_content
    /\ offset_adjustment' = offset_adjustment
    /\ fixes_applied' = fixes_applied
    /\ fx_pc' = "loop" /\ idx' = idx + 1 /\ reps_left' = 0

\* Where the original bytes [r.start, r.end) stand in the content, untouched.
BlockAt(r, k) ==
    /\ k + (r.end - r.start) <= Len(fixed_content)
    /\ \A i \in 1..(r.end - r.start) : fixed_content[k + i] = r.start + i

\* C5: when every fix holds one replacement of a non-empty range of the
\* original content and the fixes of later lines name later ranges, each
\* replacement puts its text in the place of exactly the original bytes it names.
C5_ReplacesNamedBytes ==
    [][ \A r \in Replacements : \A k \in 0..Len(fixed_content) :
          (apply_single_fix(r) /\ low' = r.start /\ BlockAt(r, k))
          => fixed_content' = SubSeq(fixed_content, 1, k) \o r.text
                              \o SubSeq(fixed_content, k + (r.end - r.start) + 1, Len(fixed_content)) ]_vars

\* C6: a replacement is applied only with 0 <= start <= end <= len(content)
\* for its translated range, and the content's length changes by
\* len(text) - (end - start).
C6_AppliedInBounds ==
    [][ \A r \in Replacements :
          Applies(r)
          => /\ 0 <= TStart(r) /\ TStart(r) <= TEnd(r) /\ TEnd(r) <= Len(fixed_content)
             /\ Len(fixed_content') = Len(fixed_content) - (TEnd(r) - TStart(r)) + Len(r.text)
             /\ Len(fixed_content') >= 0 ]_vars

\* A fix was applied after the offset went negative, and another was refused.
C6_Witness ==
    /\ fx_pc = "done"
    /\ offset_adjustment < 0
    /\ attempted = 2
    /\ fixes_applied = applied_before + 1
    /\ Len(fixed_content) < Len(original)

\* C7: when no issue carries a fix, apply_fixes returns the content it was
\* given and leaves fixes_applied as it was.
C7_NoFixNoChange ==
    (fx_pc = "done" /\ \A i \in 1..Len(issues) : ~issues[i].has_fix)
    => fixed_content = original /\ fixes_applied = applied_before

C7_Witness ==
    /\ fx_pc = "done"
    /\ Len(issues) = 2
    /\ \A i \in 1..Len(issues) : ~issues[i].has_fix
    /\ Len(original) = 2
    /\ applied_before = 1

\* The translated range of r is out of bounds or inverted.
TranslatedInvalid(r) ==
    \/ TStart(r) < 0 \/ TEnd(r) < 0
    \/ TStart(r) > Len(fixed_content) \/ TEnd(r) > Len(fixed_content)
    \/ TStart(r) > TEnd(r)

\* C8 as stated: a replacement with an invalid translated range leaves the
\* content and the offset as they are, and the later replacements of the same
\* fix are still attempted.
C8_OnlyThatReplacementSkipped ==
    [][ \A r \in Replacements :
          (apply_single_fix(r) /\ TranslatedInvalid(r))
          => /\ fixed_content' = fixed_content
             /\ offset_adjustment' = offset_adjustment
             /\ reps_left > 1 => (fx_pc' = "fix" /\ reps_left' = reps_left - 1) ]_vars

\* C8 amended: a replacement with an invalid translated range ends its fix:
\* the content, the offset and the counter stay as they are, the later
\* replacements of that fix are not reached, the loop goes on to the next fix,
\* and when apply_fixes returns every fix has been handed to apply_single_fix.
C8_RestOfFixSkipped ==
    [][ /\ (fx_pc = "fix" /\ ~EndsFixUnapplied)
             => \A r \in Replacements : TranslatedInvalid(r) => ~apply_single_fix(r)
        /\ fx_pc' = "done"
             => attempted' = Cardinality({ i \in 1..Len(issues') : issues'[i].has_fix }) ]_vars

\* The first fix was refused and the second fix is being applied.
C8_Witness ==
    /\ fx_pc = "fix"
    /\ attempted = 2
    /\ fixes_applied = applied_before
    /\ fixed_content = original

\* C28: a fix is counted in fixes_applied iff every one of its replacements
\* was applied, and a fix that is not counted has left the content and the
\* running offset as they were when the fix was attempted.
C28_FixIsAtomic ==
    [][ fx_pc = "fix"
        => /\ (fixes_applied' = fixes_applied + 1)
                <=> (reps_left = 1 /\ \E r \in Replacements : Applies(r))
           /\ (fx_pc' = "loop" /\ fixes_applied' = fixes_applied)
                => /\ fixed_content' = fix_start.content
                   /\ offset_adjustment' = fix_start.offset ]_vars

\* -------------------------------------------------- claims on analyze_path
\* C25: stats.files_with_issues is the number of files that have at least
\* one issue, in the incremental and in the non-incremental mode.
C25_FilesWithIssuesCounted ==
    r_op = "analyze_path"
    => r_out.files_with_issues
         = Cardinality({ p \in DOMAIN r_out.file_issues : r_out.file_issues[p] # << >> })

\* C26: the fixes_applied of the results of an analyze_path_with_autofix run
\* is the number of fixes applied during that run.
C26_FixesAppliedOfThisRun ==
    (r_op = "analyze_path" /\ r_out.autofix) => r_out.fixes_applied = r_out.applied_in_run

\* ------------------------------------------ claims on the parallel drivers
\* How often e occurs in seq.
Count(seq, e) == Cardinality({ i \in 1..Len(seq) : seq[i] = e })

ChunksPartition ==
    \A j \in 0..(Len(r_in.files) - 1) :
        Cardinality({ w \in 1..Len(r_out.handles) :
                        r_out.handles[w].start_idx <= j /\ j < r_out.handles[w].end_idx }) = 1

\* C29: lint_files_parallel returns for every file list and every
\* interleaving of its threads; when it returns every worker has ended, the
\* chunks partition the list, each file was linted exactly once, the channel
\* is empty and all_errors holds exactly the errors lint_file gave for the
\* files, each as often as lint_file gave it.
C29_LintTerminatesWithAllErrors ==
    /\ [](r_op = "linted"
            => /\ ChunksPartition
               /\ \A w \in 1..Len(r_out.handles) : ~r_out.handles[w].running
               /\ \A k \in 1..Len(r_in.files) : r_out.linted[k] = 1
               /\ r_out.channel = << >>
               /\ \A k \in 1..Len(r_in.files) :
                    \A j \in 1..Len(lint_file(r_in.files, k)) :
                       Count(r_out.all_errors, lint_file(r_in.files, k)[j]) = 1
               /\ \A i \in 1..Len(r_out.all_errors) :
                    /\ r_out.all_errors[i].file \in 1..Len(r_in.files)
                    /\ r_out.all_errors[i] \in Range(lint_file(r_in.files, r_out.all_errors[i].file)))
    /\ (r_op = "lint") ~> (r_op = "linted")

\* A run over three files on two threads returned: the chunks are of two
\* files and of one, and the errors of the last file were received before
\* those of the first.
C29_Witness ==
    /\ r_op = "linted"
    /\ Len(r_in.files) = 3
    /\ Len(r_out.handles) = 2
    /\ Len(r_out.all_errors) = 4
    /\ r_out.all_errors[1].file = 3
    /\ r_out.all_errors[4].file = 1


====
